---- MODULE Spec2Model ----
(***************************************************************************)
(* Model of pkg/bench/stat.go: the Stat benchmark's three phases.          *)
(*   Prepare  - main thread sets up the bucket, then Concurrency upload    *)
(*              workers fill the shared inventory g.objects.               *)
(*   Start    - Concurrency measurement workers wait on the start gate,    *)
(*              then loop issuing STAT calls until the context is done.    *)
(* Every goroutine is a process with a program counter; one action is one  *)
(* step between two points where another goroutine can observe or change   *)
(* shared state (ctx, mu, groupErr, g.objects, the collector, the wait     *)
(* group, the client pool).                                                *)
(***************************************************************************)
EXTENDS Integers, Sequences, FiniteSets, Bags

\* ------------------------------------------------------------------ bounds
MaxObjects == 2
MaxVersions == 2
MaxConc == 2
MaxSize == 1
MaxOps == 2
MaxAgainObjects == 1
MaxAgainConc == 1
MaxSplitObjects == 12
MaxSplitConc == 4
MaxFairVersions == 1
MaxFairUploads == 4
MaxFairObjects == 1

VARIABLES
    CreateObjects,   \* g.CreateObjects
    Versions,        \* g.Versions
    Concurrency,     \* g.Concurrency
    Versioned,       \* g.Versioned
    objSize,         \* obj.Size of the objects that g.Source() generates
    objects,         \* g.objects, the shared inventory
    ctxDone,         \* the run context ctx has been cancelled
    mainpc,          \* position of the goroutine that called Prepare or Start
    retErr,          \* the error the phase returned (NoRet until it returns)
    objs,            \* objs, the parts made by splitObjs (length of each part)
    wg,              \* counter of the sync.WaitGroup wg
    mu,              \* the sync.Mutex mu: the set of workers holding it
    groupErr,        \* groupErr, the first-error slot
    pc,              \* position of each worker goroutine
    iter,            \* Prepare worker: iterations of "for range obj" completed
    ver,             \* Prepare worker: the loop variable ver
    held,            \* client handles a worker has checked out and not released
    heldMain,        \* the same for the main goroutine
    rcvd,            \* the records the collector has received (a bag)
    enableCalls,     \* calls of cl.EnableVersioning made so far
    bucketCreated,   \* g.createEmptyBucket has succeeded
    wait,            \* the start gate: TRUE once the channel wait is closed
    closed,          \* c.Close() has been called
    want,            \* Start worker: obj.Size of the inventory entry picked
    op,              \* Start worker: op.Err of the Operation being built
    calls,           \* Start worker: StatObject calls issued
    late,            \* Start worker: records sent after ctx was done
    doneAtOpen,      \* ctx was already done when the gate was closed
    log,             \* the Operations that Start returned (NoLog until then)
    ctxFail,         \* Prepare worker: its PutObject failed because ctx was done
    got,             \* Start worker: objI.Size that StatObject reported
    again,           \* Prepare has been called a second time
    bucket,          \* the object versions stored in the bucket
    cleanupReq       \* the prefixes Cleanup passed to g.deleteAllInBucket

vars == <<CreateObjects, Versions, Concurrency, Versioned, objSize, objects,
          ctxDone, mainpc, retErr, objs, wg, mu, groupErr, pc, iter, ver,
          held, heldMain, rcvd, enableCalls, bucketCreated, wait, closed,
          want, op, calls, late, doneAtOpen, log, ctxFail, got, again, bucket,
          cleanupReq>>

\* ----------------------------------------------------------------- values
Nil == <<>>
NoRet == <<"not returned">>
Workers == 0 .. (Concurrency - 1)
Replies == 0 .. MaxSize
ExitPcs == {"done", "cancelled", "stopped", "failed"}

\* Outcomes of the calls into collaborators the phases depend on.
CallOutcomes == {"ok", "err"}
RpsOutcomes == {"nil", "stop"}

\* splitObjs(objects, concurrency): the length of each of the concurrency parts,
\* as even as possible, the remainder spread over the first parts.
splitObjs(n, k) ==
    [i \in 1 .. k |-> (n \div k) + (IF i <= n % k THEN 1 ELSE 0)]

\* Operation{OpType, Thread, Err}; the timestamps, Size, File and Endpoint of
\* the record play no part in the control flow and are left out.
Operation(t, i, e) == [OpType |-> t, Thread |-> i, Err |-> e]

\* Start has not returned its Operations yet.
NoLog == SetToBag({Operation("none", 0, "")})

\* rcv <- op
Send(o) == rcvd (+) SetToBag({o})

\* The object generated for version v of iteration it of worker w, after the
\* upload: obj.Name = name, obj.VersionID = res.VersionID, obj.Reader = nil.
UploadedObject(w, it, v) ==
    [Name |-> <<w, it>>, Size |-> objSize,
     VersionID |-> IF Versioned THEN v + 1 ELSE 0, Reader |-> Nil]

\* ------------------------------------------------------------------- Init
Init ==
    /\ CreateObjects \in 0 .. MaxObjects
    /\ Versions \in 0 .. MaxVersions
    /\ Concurrency \in 1 .. MaxConc
    /\ Versioned \in BOOLEAN
    /\ objSize = MaxSize
    /\ objects = <<>>
    /\ ctxDone = FALSE
    /\ mainpc = "prepare"
    /\ retErr = NoRet
    /\ objs = <<>>
    /\ wg = 0
    /\ mu = {}
    /\ groupErr = Nil
    /\ pc = [w \in Workers |-> "idle"]
    /\ iter = [w \in Workers |-> 0]
    /\ ver = [w \in Workers |-> 0]
    /\ held = [w \in Workers |-> 0]
    /\ heldMain = 0
    /\ rcvd = EmptyBag
    /\ enableCalls = 0
    /\ bucketCreated = FALSE
    /\ wait = FALSE
    /\ closed = FALSE
    /\ want = [w \in Workers |-> 0]
    /\ op = [w \in Workers |-> ""]
    /\ calls = [w \in Workers |-> 0]
    /\ late = [w \in Workers |-> 0]
    /\ doneAtOpen = FALSE
    /\ log = NoLog
    /\ ctxFail = [w \in Workers |-> FALSE]
    /\ got = [w \in Workers |-> 0]
    /\ again = FALSE
    /\ bucket = {}
    /\ cleanupReq = {}

startVars == <<wait, closed, want, op, calls, late, doneAtOpen, log>>
cfgVars == <<CreateObjects, Versions, Concurrency, objSize>>
setupVars == <<enableCalls, bucketCreated>>

\* ------------------------------------------------------ the run context
\* The caller (or the auto-terminator) cancels ctx while a phase is running.
Cancel ==
    /\ ~ctxDone
    /\ retErr = NoRet
    /\ ctxDone' = TRUE
    /\ UNCHANGED <<cfgVars, Versioned, objects, mainpc, retErr, objs, wg, mu,
                   groupErr, pc, iter, ver, held, heldMain, rcvd, setupVars,
                   startVars,
                   ctxFail, got, again, bucket, cleanupReq>>

\* --------------------------------------------------- Prepare, main goroutine
\* if err := g.createEmptyBucket(ctx); err != nil { return err }
\* On success the bucket exists and holds nothing.
PrepareBucket ==
    /\ mainpc = "prepare"
    /\ \E r \in CallOutcomes :
         IF r = "err"
         THEN /\ retErr' = <<"create bucket error">>
              /\ mainpc' = "returned"
              /\ UNCHANGED <<bucketCreated, bucket>>
         ELSE /\ mainpc' = IF Versions > 1 THEN "versioning" ELSE "spawn"
              /\ bucketCreated' = TRUE
              /\ bucket' = {}
              /\ UNCHANGED retErr
    /\ UNCHANGED <<cfgVars, Versioned, objects, ctxDone, objs, wg, mu, groupErr,
                   pc, iter, ver, held, heldMain, rcvd, enableCalls, startVars,
                   ctxFail, got, again, cleanupReq>>

\* Mutant: the error of EnableVersioning is dropped and Prepare goes on.
PrepareVersioningIgnoreError ==
    /\ mainpc = "versioning"
    /\ IF ~Versioned
       THEN /\ enableCalls' = enableCalls + 1
            /\ \E r \in CallOutcomes :
                 /\ Versioned' = (r = "ok")
                 /\ mainpc' = "spawn"
                 /\ UNCHANGED <<retErr, heldMain>>
       ELSE /\ mainpc' = "spawn"
            /\ UNCHANGED <<Versioned, retErr, heldMain, enableCalls>>
    /\ UNCHANGED <<cfgVars, objects, ctxDone, objs, wg, mu, groupErr, pc, iter,
                   ver, held, rcvd, bucketCreated, startVars,
                   ctxFail, got, again, bucket, cleanupReq>>

\* Mutant: the test of g.Versioned is dropped, every call enables versioning.
PrepareVersioningAlways ==
    /\ mainpc = "versioning"
    /\ enableCalls' = enableCalls + 1
    /\ \E r \in CallOutcomes :
         IF r = "err"
         THEN /\ retErr' = <<"enable versioning error">>
              /\ mainpc' = "returned"
              /\ heldMain' = heldMain + 1
              /\ UNCHANGED Versioned
         ELSE /\ Versioned' = TRUE
              /\ mainpc' = "spawn"
              /\ UNCHANGED <<retErr, heldMain>>
    /\ UNCHANGED <<cfgVars, objects, ctxDone, objs, wg, mu, groupErr, pc, iter,
                   ver, held, rcvd, bucketCreated, startVars,
                   ctxFail, got, again, bucket, cleanupReq>>

\* if g.Versions > 1 { cl, done := g.Client(); if !g.Versioned { ... }; done() }
\* The return on the error of EnableVersioning leaves without calling done().
PrepareVersioning ==
    /\ mainpc = "versioning"
    /\ IF ~Versioned
       THEN /\ enableCalls' = enableCalls + 1
            /\ \E r \in CallOutcomes :
                 IF r = "err"
                 THEN /\ retErr' = <<"enable versioning error">>
                      /\ mainpc' = "returned"
                      /\ heldMain' = heldMain + 1
                      /\ UNCHANGED Versioned
                 ELSE /\ Versioned' = TRUE
                      /\ mainpc' = "spawn"
                      /\ UNCHANGED <<retErr, heldMain>>
       ELSE /\ mainpc' = "spawn"
            /\ UNCHANGED <<Versioned, retErr, heldMain, enableCalls>>
    /\ UNCHANGED <<cfgVars, objects, ctxDone, objs, wg, mu, groupErr, pc, iter,
                   ver, held, rcvd, bucketCreated, startVars,
                   ctxFail, got, again, bucket, cleanupReq>>

\* Mutant: the versions are split too, CreateObjects * Versions iterations.
PrepareSpawnPerVersion ==
    /\ mainpc = "spawn"
    /\ wg' = wg + Concurrency
    /\ rcvd' = EmptyBag
    /\ objs' = splitObjs(CreateObjects * Versions, Concurrency)
    /\ groupErr' = Nil
    /\ mu' = {}
    /\ pc' = [w \in Workers |-> "poll"]
    /\ mainpc' = "wait"
    /\ UNCHANGED <<cfgVars, Versioned, objects, ctxDone, retErr, iter, ver, held,
                   heldMain, setupVars, startVars,
                   ctxFail, got, again, bucket, cleanupReq>>

\* wg.Add(g.Concurrency); g.addCollector(); objs := splitObjs(...);
\* var groupErr error; var mu sync.Mutex; one goroutine per part.
PrepareSpawn ==
    /\ mainpc = "spawn"
    /\ wg' = wg + Concurrency
    /\ rcvd' = EmptyBag
    /\ objs' = splitObjs(CreateObjects, Concurrency)
    /\ groupErr' = Nil
    /\ mu' = {}
    /\ pc' = [w \in Workers |-> "poll"]
    /\ mainpc' = "wait"
    /\ UNCHANGED <<cfgVars, Versioned, objects, ctxDone, retErr, iter, ver, held,
                   heldMain, setupVars, startVars,
                   ctxFail, got, again, bucket, cleanupReq>>

\* wg.Wait(); return groupErr
PrepareReturn ==
    /\ mainpc = "wait"
    /\ wg = 0
    /\ retErr' = groupErr
    /\ mainpc' = "returned"
    /\ UNCHANGED <<cfgVars, Versioned, objects, ctxDone, objs, wg, mu, groupErr,
                   pc, iter, ver, held, heldMain, rcvd, setupVars, startVars,
                   ctxFail, got, again, bucket, cleanupReq>>

\* The caller calls Prepare again on the same Stat, with a live context: the
\* locals of the call start afresh, the fields of g (Versioned, objects) and
\* the client pool keep what the first call left.
PrepareAgain ==
    /\ mainpc = "returned"
    /\ ~again
    /\ again' = TRUE
    /\ mainpc' = "prepare"
    /\ retErr' = NoRet
    /\ ctxDone' = FALSE
    /\ objs' = <<>>
    /\ wg' = 0
    /\ mu' = {}
    /\ groupErr' = Nil
    /\ pc' = [w \in Workers |-> "idle"]
    /\ iter' = [w \in Workers |-> 0]
    /\ ver' = [w \in Workers |-> 0]
    /\ ctxFail' = [w \in Workers |-> FALSE]
    /\ bucketCreated' = FALSE
    /\ UNCHANGED <<cfgVars, Versioned, objects, held, heldMain, rcvd,
                   enableCalls, startVars, got, bucket, cleanupReq>>

\* --------------------------------------------------- Prepare, upload workers
\* What no step of an upload worker changes.
mainVars == <<cfgVars, Versioned, ctxDone, mainpc, retErr, objs, heldMain,
              setupVars, startVars>>

\* Mutant: the return after a rate-limiter stop does not reach wg.Done().
ExitNoDone(w, how) ==
    /\ pc' = [pc EXCEPT ![w] = how]
    /\ wg' = IF how = "stopped" THEN wg ELSE wg - 1

\* return, with the deferred wg.Done()
Exit(w, how) ==
    /\ pc' = [pc EXCEPT ![w] = how]
    /\ wg' = wg - 1

\* Mutant: fail fast, a worker also leaves its loop once a sibling has failed.
PreparePollFailFast(w) ==
    /\ pc[w] = "poll"
    /\ IF iter[w] >= objs[w + 1] \/ groupErr # Nil
       THEN Exit(w, "done")
       ELSE IF ctxDone
            THEN Exit(w, "cancelled")
            ELSE /\ pc' = [pc EXCEPT ![w] = "rps"]
                 /\ UNCHANGED wg
    /\ UNCHANGED <<mainVars, objects, mu, groupErr, iter, ver, held, rcvd,
                   ctxFail, got, again, bucket, cleanupReq>>

\* for range obj { select { case <-ctx.Done(): return; default: } ...
PreparePoll(w) ==
    /\ pc[w] = "poll"
    /\ IF iter[w] >= objs[w + 1]
       THEN Exit(w, "done")
       ELSE IF ctxDone
            THEN Exit(w, "cancelled")
            ELSE /\ pc' = [pc EXCEPT ![w] = "rps"]
                 /\ UNCHANGED wg
    /\ UNCHANGED <<mainVars, objects, mu, groupErr, iter, ver, held, rcvd,
                   ctxFail, got, again, bucket, cleanupReq>>

\* if g.rpsLimit(ctx) != nil { return }; obj := src.Object(); name := obj.Name;
\* for ver := 0; ver < g.Versions; ...
PrepareRps(w) ==
    /\ pc[w] = "rps"
    /\ \E r \in RpsOutcomes :
         IF r = "stop"
         THEN /\ Exit(w, "stopped")
              /\ UNCHANGED <<iter, ver>>
         ELSE IF 0 < Versions
              THEN /\ pc' = [pc EXCEPT ![w] = "put"]
                   /\ ver' = [ver EXCEPT ![w] = 0]
                   /\ UNCHANGED <<wg, iter>>
              ELSE /\ pc' = [pc EXCEPT ![w] = "poll"]
                   /\ iter' = [iter EXCEPT ![w] = @ + 1]
                   /\ UNCHANGED <<wg, ver>>
    /\ UNCHANGED <<mainVars, objects, mu, groupErr, held, rcvd,
                   ctxFail, got, again, bucket, cleanupReq>>

\* The outcomes of client.PutObject(ctx, ...): as CallOutcomes, and once ctx is
\* done the call can also fail with the error of the cancelled context.
PutOutcomes == CallOutcomes \cup (IF ctxDone THEN {"canceled"} ELSE {})

\* client, cldone := g.Client(); res, err := client.PutObject(...): the call
\* fails, or the bucket stores the version and the call reports res.Size bytes
\* written. Both error branches return with the handle still checked out; the
\* success branch goes on to cldone().
PreparePut(w) ==
    /\ pc[w] = "put"
    /\ \E r \in PutOutcomes, size \in Replies :
         IF r # "ok"
         THEN /\ pc' = [pc EXCEPT ![w] = "uploadErr"]
              /\ held' = [held EXCEPT ![w] = @ + 1]
              /\ ctxFail' = [ctxFail EXCEPT ![w] = (r = "canceled")]
              /\ UNCHANGED bucket
         ELSE /\ bucket' = bucket \cup {<<w, iter[w], ver[w]>>}
              /\ UNCHANGED ctxFail
              /\ IF size # objSize
                 THEN /\ pc' = [pc EXCEPT ![w] = "shortErr"]
                      /\ held' = [held EXCEPT ![w] = @ + 1]
                 ELSE /\ pc' = [pc EXCEPT ![w] = "lock"]
                      /\ held' = [held EXCEPT ![w] = (@ + 1) - 1]
    /\ UNCHANGED <<mainVars, objects, wg, mu, groupErr, iter, ver, rcvd,
                   got, again, cleanupReq>>

\* err := fmt.Errorf(...); g.Error(err); mu.Lock()
PrepareErrLock(w) ==
    /\ pc[w] \in {"uploadErr", "shortErr"}
    /\ mu = {}
    /\ mu' = {w}
    /\ pc' = [pc EXCEPT ![w] = IF pc[w] = "uploadErr" THEN "uploadSet" ELSE "shortSet"]
    /\ UNCHANGED <<mainVars, objects, wg, groupErr, iter, ver, held, rcvd,
                   ctxFail, got, again, bucket, cleanupReq>>

\* Mutant: the slot is assigned without the test for nil.
FirstErrorOverwrite(cur, err) == err

\* if groupErr == nil { groupErr = err }
FirstError(cur, err) == IF cur = Nil THEN err ELSE cur

\* Mutant: the failed upload is logged too, its record is sent with the error.
PrepareErrSetLogged(w) ==
    /\ pc[w] \in {"uploadSet", "shortSet"}
    /\ mu = {w}
    /\ groupErr' = FirstError(groupErr,
                     <<IF pc[w] = "uploadSet" THEN "upload error" ELSE "short upload", w>>)
    /\ mu' = {}
    /\ rcvd' = Send(Operation("PUT", w, "upload error"))
    /\ Exit(w, "failed")
    /\ UNCHANGED <<mainVars, objects, iter, ver, held,
                   ctxFail, got, again, bucket, cleanupReq>>

\* if groupErr == nil { groupErr = err }; mu.Unlock(); return
PrepareErrSet(w) ==
    /\ pc[w] \in {"uploadSet", "shortSet"}
    /\ mu = {w}
    /\ groupErr' = FirstError(groupErr,
                     <<IF pc[w] = "uploadSet" THEN "upload error" ELSE "short upload", w>>)
    /\ mu' = {}
    /\ Exit(w, "failed")
    /\ UNCHANGED <<mainVars, objects, iter, ver, held, rcvd,
                   ctxFail, got, again, bucket, cleanupReq>>

\* mu.Lock()
PrepareLock(w) ==
    /\ pc[w] = "lock"
    /\ mu = {}
    /\ mu' = {w}
    /\ pc' = [pc EXCEPT ![w] = "append"]
    /\ UNCHANGED <<mainVars, objects, wg, groupErr, iter, ver, held, rcvd,
                   ctxFail, got, again, bucket, cleanupReq>>

\* Mutant: only the last version of an object is recorded in the inventory.
PrepareAppendLastVersion(w) ==
    /\ pc[w] = "append"
    /\ mu = {w}
    /\ objects' = IF ver[w] + 1 = Versions
                  THEN Append(objects, UploadedObject(w, iter[w], ver[w]))
                  ELSE objects
    /\ mu' = {}
    /\ pc' = [pc EXCEPT ![w] = "emit"]
    /\ UNCHANGED <<mainVars, wg, groupErr, iter, ver, held, rcvd,
                   ctxFail, got, again, bucket, cleanupReq>>

\* Mutant: a later version takes the place of the last entry of the inventory.
PrepareAppendReplace(w) ==
    /\ pc[w] = "append"
    /\ mu = {w}
    /\ objects' = IF ver[w] > 0 /\ Len(objects) > 0
                  THEN [objects EXCEPT ![Len(objects)] =
                            UploadedObject(w, iter[w], ver[w])]
                  ELSE Append(objects, UploadedObject(w, iter[w], ver[w]))
    /\ mu' = {}
    /\ pc' = [pc EXCEPT ![w] = "emit"]
    /\ UNCHANGED <<mainVars, wg, groupErr, iter, ver, held, rcvd,
                   ctxFail, got, again, bucket, cleanupReq>>

\* obj.Reader = nil; g.objects = append(g.objects, *obj); g.prepareProgress(...);
\* mu.Unlock()
PrepareAppend(w) ==
    /\ pc[w] = "append"
    /\ mu = {w}
    /\ objects' = Append(objects, UploadedObject(w, iter[w], ver[w]))
    /\ mu' = {}
    /\ pc' = [pc EXCEPT ![w] = "emit"]
    /\ UNCHANGED <<mainVars, wg, groupErr, iter, ver, held, rcvd,
                   ctxFail, got, again, bucket, cleanupReq>>

\* rcv <- op; then ver++ and the tests of both loops
PrepareEmit(w) ==
    /\ pc[w] = "emit"
    /\ rcvd' = Send(Operation("PUT", w, ""))
    /\ IF ver[w] + 1 < Versions
       THEN /\ ver' = [ver EXCEPT ![w] = @ + 1]
            /\ pc' = [pc EXCEPT ![w] = "put"]
            /\ UNCHANGED iter
       ELSE /\ ver' = [ver EXCEPT ![w] = 0]
            /\ iter' = [iter EXCEPT ![w] = @ + 1]
            /\ pc' = [pc EXCEPT ![w] = "poll"]
    /\ UNCHANGED <<mainVars, objects, wg, mu, groupErr, held,
                   ctxFail, got, again, bucket, cleanupReq>>

PrepareWorker(w) ==
    \/ PreparePoll(w)
    \/ PrepareRps(w)
    \/ PreparePut(w)
    \/ PrepareErrLock(w)
    \/ PrepareErrSet(w)
    \/ PrepareLock(w)
    \/ PrepareAppend(w)
    \/ PrepareEmit(w)

\* ------------------------------------------------------------------ Start
\* The text of op.Err.
StatError == "StatObject error"
SizeError == "unexpected file size"
ErrTexts == {"", StatError, SizeError}

\* The STAT records that worker w has sent to the collector.
StatCount(w) ==
    LET recs == {Operation("STAT", w, e) : e \in ErrTexts}
        RECURSIVE Sum(_)
        Sum(S) == IF S = {} THEN 0
                  ELSE LET r == CHOOSE x \in S : TRUE
                       IN CopiesIn(r, rcvd) + Sum(S \ {r})
    IN Sum(recs)

\* Workers that are past the cancellation poll of an iteration and have not
\* sent its record yet.
Busy == {w \in Workers : pc[w] \in {"srps", "call", "emit"}}

\* STAT calls issued or about to be issued in this phase.
Issued ==
    LET RECURSIVE Sum(_)
        Sum(S) == IF S = {} THEN 0
                  ELSE LET w == CHOOSE x \in S : TRUE
                       IN calls[w] + Sum(S \ {w})
    IN Sum(Workers) + Cardinality({w \in Workers : pc[w] = "srps"})

\* rng.Intn(len(g.objects)) panics when the inventory is empty; the panic is not
\* recovered, so the process ends there.
Crashed == \E w \in Workers : pc[w] = "panic"

\* What no step of a measurement worker changes.
startMainVars == <<cfgVars, Versioned, objects, ctxDone, mainpc, retErr, objs, mu,
                   groupErr, iter, ver, heldMain, setupVars, wait, closed,
                   doneAtOpen, log>>

\* The inventory that a Prepare with k workers leaves after n uploads of v
\* versions each, worker by worker in turn: object o is iteration o \div k of
\* worker o % k.
InventoryOf(k, v, n, versioned, size) ==
    [j \in 1 .. n |->
        [Name |-> <<((j - 1) \div v) % k, ((j - 1) \div v) \div k>>,
         Size |-> size,
         VersionID |-> IF versioned THEN ((j - 1) % v) + 1 ELSE 0,
         Reader |-> Nil]]

\* The PUT records that Prepare sent for the entries of inventory inv.
PutRecords(inv) ==
    LET ws == {inv[j].Name[1] : j \in 1 .. Len(inv)}
    IN [r \in {Operation("PUT", w, "") : w \in ws} |->
          Cardinality({j \in 1 .. Len(inv) : inv[j].Name[1] = r.Thread})]

\* The state in which Start is called: Prepare has returned nil, after all of
\* its uploads or, cancelled or stopped, before the first of them.
InitStart ==
    /\ CreateObjects \in 0 .. MaxObjects
    /\ Versions \in 0 .. MaxVersions
    /\ Concurrency \in 1 .. MaxConc
    /\ Versioned = (Versions > 1)
    /\ objSize = MaxSize
    /\ \E n \in {0, CreateObjects * Versions} :
         objects = InventoryOf(Concurrency, Versions, n, Versioned, objSize)
    /\ rcvd = PutRecords(objects)
    /\ ctxDone = FALSE
    /\ mainpc = "start"
    /\ retErr = NoRet
    /\ objs = splitObjs(CreateObjects, Concurrency)
    /\ wg = 0
    /\ mu = {}
    /\ groupErr = Nil
    /\ pc = [w \in Workers |-> "idle"]
    /\ iter = [w \in Workers |-> 0]
    /\ ver = [w \in Workers |-> 0]
    /\ held = [w \in Workers |-> 0]
    /\ heldMain = 0
    /\ enableCalls = IF Versions > 1 THEN 1 ELSE 0
    /\ bucketCreated = TRUE
    /\ wait = FALSE
    /\ closed = FALSE
    /\ want = [w \in Workers |-> 0]
    /\ op = [w \in Workers |-> ""]
    /\ calls = [w \in Workers |-> 0]
    /\ late = [w \in Workers |-> 0]
    /\ doneAtOpen = FALSE
    /\ log = NoLog
    /\ ctxFail = [w \in Workers |-> FALSE]
    /\ got = [w \in Workers |-> 0]
    /\ again = FALSE
    /\ bucket = {}
    /\ cleanupReq = {}

\* The caller of Start closes the channel wait.
CloseGate ==
    /\ mainpc \in {"start", "swait"}
    /\ ~wait
    /\ ~Crashed
    /\ wait' = TRUE
    /\ doneAtOpen' = ctxDone
    /\ UNCHANGED <<cfgVars, Versioned, objects, ctxDone, mainpc, retErr, objs, wg,
                   mu, groupErr, pc, iter, ver, held, heldMain, rcvd, setupVars,
                   closed, want, op, calls, late, log,
                   ctxFail, got, again, bucket, cleanupReq>>

\* The run context is cancelled by the caller or, when g.AutoTermDur > 0, by the
\* context that c.AutoTerm derived from it.
CancelStart ==
    /\ ~Crashed
    /\ Cancel

\* Mutant: the wait group counts one worker too few.
StartSpawnShort ==
    /\ mainpc = "start"
    /\ wg' = wg + Concurrency - 1
    /\ pc' = [w \in Workers |-> "gate"]
    /\ mainpc' = "swait"
    /\ UNCHANGED <<cfgVars, Versioned, objects, ctxDone, retErr, objs, mu,
                   groupErr, iter, ver, held, heldMain, rcvd, setupVars, startVars,
                   ctxFail, got, again, bucket, cleanupReq>>

\* wg.Add(g.Concurrency); c := g.Collector; one goroutine per worker, each up
\* to its receive from wait.
StartSpawn ==
    /\ mainpc = "start"
    /\ wg' = wg + Concurrency
    /\ pc' = [w \in Workers |-> "gate"]
    /\ mainpc' = "swait"
    /\ UNCHANGED <<cfgVars, Versioned, objects, ctxDone, retErr, objs, mu,
                   groupErr, iter, ver, held, heldMain, rcvd, setupVars, startVars,
                   ctxFail, got, again, bucket, cleanupReq>>

\* Mutant: a counting gate, the worker that passes takes the signal with it.
StartGateTaken(w) ==
    /\ pc[w] = "gate"
    /\ wait
    /\ wait' = FALSE
    /\ pc' = [pc EXCEPT ![w] = "spoll"]
    /\ UNCHANGED <<cfgVars, Versioned, objects, ctxDone, mainpc, retErr, objs, mu,
                   groupErr, iter, ver, heldMain, setupVars, closed, doneAtOpen,
                   log, wg, held, rcvd, want, op, calls, late,
                   ctxFail, got, again, bucket, cleanupReq>>

\* Mutant: the first iteration starts without the poll of done.
StartGateSkipsPoll(w) ==
    /\ pc[w] = "gate"
    /\ wait
    /\ Issued < MaxOps
    /\ pc' = [pc EXCEPT ![w] = "srps"]
    /\ UNCHANGED <<startMainVars, wg, held, rcvd, want, op, calls, late,
                   ctxFail, got, again, bucket, cleanupReq>>

\* Mutant: the wait on the gate is a select that also watches done.
StartGateCancellable(w) ==
    /\ pc[w] = "gate"
    /\ IF ctxDone
       THEN Exit(w, "cancelled")
       ELSE /\ wait
            /\ pc' = [pc EXCEPT ![w] = "spoll"]
            /\ UNCHANGED wg
    /\ UNCHANGED <<startMainVars, held, rcvd, want, op, calls, late,
                   ctxFail, got, again, bucket, cleanupReq>>

\* <-wait
StartGate(w) ==
    /\ pc[w] = "gate"
    /\ wait
    /\ pc' = [pc EXCEPT ![w] = "spoll"]
    /\ UNCHANGED <<startMainVars, wg, held, rcvd, want, op, calls, late,
                   ctxFail, got, again, bucket, cleanupReq>>

\* Mutant: the poll does not look at done.
StartPollBlind(w) ==
    /\ pc[w] = "spoll"
    /\ Issued < MaxOps
    /\ pc' = [pc EXCEPT ![w] = "srps"]
    /\ UNCHANGED <<startMainVars, wg, held, rcvd, want, op, calls, late,
                   ctxFail, got, again, bucket, cleanupReq>>

\* for { select { case <-done: return; default: } ...
\* The phase issues at most MaxOps calls: a worker goes into a further
\* iteration only while that budget lasts.
StartPoll(w) ==
    /\ pc[w] = "spoll"
    /\ IF ctxDone
       THEN Exit(w, "cancelled")
       ELSE /\ Issued < MaxOps
            /\ pc' = [pc EXCEPT ![w] = "srps"]
            /\ UNCHANGED wg
    /\ UNCHANGED <<startMainVars, held, rcvd, want, op, calls, late,
                   ctxFail, got, again, bucket, cleanupReq>>

\* if g.rpsLimit(ctx) != nil { return };
\* obj := g.objects[rng.Intn(len(g.objects))]; client, cldone := g.Client();
\* op := Operation{...}; the call client.StatObject(nonTerm, ...) is issued.
StartRps(w) ==
    /\ pc[w] = "srps"
    /\ \E r \in RpsOutcomes :
         IF r = "stop"
         THEN /\ Exit(w, "stopped")
              /\ UNCHANGED <<held, want, op, calls>>
         ELSE IF Len(objects) = 0
              THEN /\ pc' = [pc EXCEPT ![w] = "panic"]
                   /\ UNCHANGED <<wg, held, want, op, calls>>
              ELSE \E j \in 1 .. Len(objects) :
                     /\ want' = [want EXCEPT ![w] = objects[j].Size]
                     /\ held' = [held EXCEPT ![w] = @ + 1]
                     /\ op' = [op EXCEPT ![w] = ""]
                     /\ calls' = [calls EXCEPT ![w] = @ + 1]
                     /\ pc' = [pc EXCEPT ![w] = "call"]
                     /\ UNCHANGED wg
    /\ UNCHANGED <<startMainVars, rcvd, late,
                   ctxFail, got, again, bucket, cleanupReq>>

\* Mutant: the error branch continues without sending its record.
StartReplyDropsError(w) ==
    /\ pc[w] = "call"
    /\ \E r \in CallOutcomes, size \in Replies :
         /\ got' = [got EXCEPT ![w] = IF r = "err" THEN 0 ELSE size]
         /\ op' = [op EXCEPT ![w] =
                     IF r = "err" THEN StatError
                     ELSE IF size # want[w] /\ op[w] = ""
                          THEN SizeError ELSE op[w]]
         /\ pc' = [pc EXCEPT ![w] = IF r = "err" THEN "scldone" ELSE "emit"]
    /\ UNCHANGED <<startMainVars, wg, held, rcvd, want, calls, late,
                   ctxFail, again, bucket, cleanupReq>>

\* objI, err := client.StatObject(...) returns: with an error (op.Err =
\* err.Error(), objI the zero ObjectInfo), or with objI.Size, which is compared
\* with obj.Size.
StartReply(w) ==
    /\ pc[w] = "call"
    /\ \E r \in CallOutcomes, size \in Replies :
         /\ got' = [got EXCEPT ![w] = IF r = "err" THEN 0 ELSE size]
         /\ op' = [op EXCEPT ![w] =
                     IF r = "err" THEN StatError
                     ELSE IF size # want[w] /\ op[w] = ""
                          THEN SizeError ELSE op[w]]
    /\ pc' = [pc EXCEPT ![w] = "emit"]
    /\ UNCHANGED <<startMainVars, wg, held, rcvd, want, calls, late,
                   ctxFail, again, bucket, cleanupReq>>

\* rcv <- op (on the error branch and on the other one)
StartEmit(w) ==
    /\ pc[w] = "emit"
    /\ rcvd' = Send(Operation("STAT", w, op[w]))
    /\ late' = [late EXCEPT ![w] = IF ctxDone THEN @ + 1 ELSE @]
    /\ pc' = [pc EXCEPT ![w] = "scldone"]
    /\ got' = [got EXCEPT ![w] = 0]
    /\ UNCHANGED <<startMainVars, wg, held, want, op, calls,
                   ctxFail, again, bucket, cleanupReq>>

\* Mutant: a size mismatch ends the worker.
StartCldoneFatal(w) ==
    /\ pc[w] = "scldone"
    /\ held' = [held EXCEPT ![w] = @ - 1]
    /\ want' = [want EXCEPT ![w] = 0]
    /\ got' = [got EXCEPT ![w] = 0]
    /\ op' = [op EXCEPT ![w] = ""]
    /\ IF op[w] = SizeError
       THEN Exit(w, "failed")
       ELSE /\ pc' = [pc EXCEPT ![w] = "spoll"]
            /\ UNCHANGED wg
    /\ UNCHANGED <<startMainVars, rcvd, calls, late,
                   ctxFail, again, bucket, cleanupReq>>

\* cldone(), then continue or the end of the loop body
StartCldone(w) ==
    /\ pc[w] = "scldone"
    /\ held' = [held EXCEPT ![w] = @ - 1]
    /\ want' = [want EXCEPT ![w] = 0]
    /\ got' = [got EXCEPT ![w] = 0]
    /\ op' = [op EXCEPT ![w] = ""]
    /\ pc' = [pc EXCEPT ![w] = "spoll"]
    /\ UNCHANGED <<startMainVars, wg, rcvd, calls, late,
                   ctxFail, again, bucket, cleanupReq>>

StartWorker(w) ==
    /\ ~Crashed
    /\ \/ StartGate(w)
       \/ StartPoll(w)
       \/ StartRps(w)
       \/ StartReply(w)
       \/ StartEmit(w)
       \/ StartCldone(w)

\* wg.Wait(); return c.Close(), nil
StartReturn ==
    /\ mainpc = "swait"
    /\ ~Crashed
    /\ wg = 0
    /\ closed' = TRUE
    /\ log' = rcvd
    /\ retErr' = Nil
    /\ mainpc' = "sreturned"
    /\ UNCHANGED <<cfgVars, Versioned, objects, ctxDone, objs, wg, mu, groupErr,
                   pc, iter, ver, held, heldMain, rcvd, setupVars, wait, want, op,
                   calls, late, doneAtOpen,
                   ctxFail, got, again, bucket, cleanupReq>>

\* ------------------------------------------------------------ specification
Next ==
    \/ Cancel
    \/ PrepareBucket
    \/ PrepareVersioning
    \/ PrepareSpawn
    \/ PrepareReturn
    \/ \E w \in Workers : PrepareWorker(w)

Spec == Init /\ [][Next]_vars

\* The split alone, for larger counts: Prepare is at the point where it
\* computes the parts and launches the workers, which are left where they start.
InitSplit ==
    /\ CreateObjects \in 0 .. MaxSplitObjects
    /\ Versions \in 0 .. MaxVersions
    /\ Concurrency \in 1 .. MaxSplitConc
    /\ Versioned = (Versions > 1)
    /\ objSize = MaxSize
    /\ objects = <<>>
    /\ ctxDone = FALSE
    /\ mainpc = "spawn"
    /\ retErr = NoRet
    /\ objs = <<>>
    /\ wg = 0
    /\ mu = {}
    /\ groupErr = Nil
    /\ pc = [w \in Workers |-> "idle"]
    /\ iter = [w \in Workers |-> 0]
    /\ ver = [w \in Workers |-> 0]
    /\ held = [w \in Workers |-> 0]
    /\ heldMain = 0
    /\ rcvd = EmptyBag
    /\ enableCalls = IF Versions > 1 THEN 1 ELSE 0
    /\ bucketCreated = TRUE
    /\ wait = FALSE
    /\ closed = FALSE
    /\ want = [w \in Workers |-> 0]
    /\ op = [w \in Workers |-> ""]
    /\ calls = [w \in Workers |-> 0]
    /\ late = [w \in Workers |-> 0]
    /\ doneAtOpen = FALSE
    /\ log = NoLog
    /\ ctxFail = [w \in Workers |-> FALSE]
    /\ got = [w \in Workers |-> 0]
    /\ again = FALSE
    /\ bucket = {}
    /\ cleanupReq = {}

SpecSplit == InitSplit /\ [][PrepareSpawn]_vars

\* Termination is explored for the configurations of a few uploads in all.
InitFair ==
    /\ Init
    /\ CreateObjects * Versions <= MaxFairUploads

\* Every call returns and the Go scheduler runs every goroutine that can take
\* a step: the main goroutine and each worker keep going while they can.
FairPrepare ==
    /\ InitFair
    /\ [][Next]_vars
    /\ WF_vars(PrepareBucket)
    /\ WF_vars(PrepareVersioning)
    /\ WF_vars(PrepareSpawn)
    /\ WF_vars(PrepareReturn)
    /\ \A w \in 0 .. (MaxConc - 1) : WF_vars(w \in Workers /\ PrepareWorker(w))

\* ---------------------------------------------------------------- Cleanup
\* g.objects.Prefixes(): the distinct name prefixes of the inventory entries.
\* Every worker draws its names from its own g.Source(), one prefix each.
Prefixes(inv) == {inv[j].Name[1] : j \in 1 .. Len(inv)}

\* g.deleteAllInBucket(ctx, prefixes...): what is left in the bucket b after
\* the objects under the given prefixes are deleted.
deleteAllInBucket(b, prefixes) == {o \in b : o[1] \notin prefixes}

\* func (g *Stat) Cleanup(ctx): best effort, a failure is reported and the
\* bucket is left as it was.
Cleanup ==
    /\ mainpc = "returned"
    /\ cleanupReq' = Prefixes(objects)
    /\ \E r \in CallOutcomes :
         IF r = "ok"
         THEN /\ bucket' = deleteAllInBucket(bucket, Prefixes(objects))
              /\ mainpc' = "cleaned"
         ELSE /\ mainpc' = "cleanfail"
              /\ UNCHANGED bucket
    /\ UNCHANGED <<cfgVars, Versioned, objects, ctxDone, retErr, objs, wg, mu,
                   groupErr, pc, iter, ver, held, heldMain, rcvd, setupVars,
                   startVars, ctxFail, got, again>>

\* Prepare, then Cleanup.
NextCleanup ==
    \/ Next
    \/ Cleanup

SpecCleanup == Init /\ [][NextCleanup]_vars

\* Prepare, and Prepare called a second time.
NextAgain ==
    \/ Next
    \/ PrepareAgain

\* Two calls replay the uploads of one; the second call is explored for the
\* smaller configurations.
InitAgain ==
    /\ Init
    /\ CreateObjects <= MaxAgainObjects
    /\ Concurrency <= MaxAgainConc

SpecAgain == InitAgain /\ [][NextAgain]_vars

NextStart ==
    \/ CancelStart
    \/ CloseGate
    \/ StartSpawn
    \/ StartReturn
    \/ \E w \in Workers : StartWorker(w)

SpecStart == InitStart /\ [][NextStart]_vars

\* Both phases: a run is in Prepare, or in Start on the inventory a Prepare left.
InPrepare == mainpc \in {"prepare", "versioning", "spawn", "wait", "returned"}

NextBoth ==
    \/ InPrepare /\ Next
    \/ ~InPrepare /\ NextStart

SpecBoth == (Init \/ InitStart) /\ [][NextBoth]_vars

\* Progress of Start is explored on the smaller inventories: the steps of
\* Start do not depend on how many entries there are beyond none or some.
InitFairStart ==
    /\ InitStart
    /\ CreateObjects <= MaxFairObjects
    /\ Versions <= MaxFairVersions

\* The Go scheduler runs every goroutine that can take a step.
FairStart ==
    /\ InitFairStart
    /\ [][NextStart]_vars
    /\ \A w \in 0 .. (MaxConc - 1) : WF_vars(w \in Workers /\ StartWorker(w))

\* ================================================================ Prepare
\* Prepare has returned through wg.Wait(), that is after launching its workers.
PrepareJoined == mainpc = "returned" /\ bucketCreated /\ objs # <<>>

\* The inventory entries that worker w appended.
EntriesOf(w) == {j \in 1 .. Len(objects) : objects[j].Name[1] = w}

SetupErrors == {<<"create bucket error">>, <<"enable versioning error">>}

\* C1 as stated: whenever Prepare, called with an empty inventory, returns a
\* nil error, the inventory holds exactly CreateObjects * Versions entries.
C1_NilReturnFullInventory ==
    (mainpc = "returned" /\ retErr = Nil)
        => Len(objects) = CreateObjects * Versions

\* C1 amended: whenever Prepare, called with an empty inventory, returns a nil
\* error and no worker left its loop on cancellation or on a rate-limiter stop,
\* the inventory holds exactly CreateObjects * Versions entries.
C1_FullInventory ==
    (/\ mainpc = "returned"
     /\ retErr = Nil
     /\ \A w \in Workers : pc[w] \notin {"cancelled", "stopped"})
        => Len(objects) = CreateObjects * Versions

C1_Witness ==
    /\ mainpc = "returned"
    /\ retErr = Nil
    /\ \A w \in Workers : pc[w] = "done"
    /\ Concurrency = 2
    /\ CreateObjects = MaxObjects
    /\ Versions = MaxVersions
    /\ Len(objects) = MaxObjects * MaxVersions

\* C2: while the workers run the error slot groupErr is written at most once
\* (once non-nil it never changes, and it only changes under the mutex, to the
\* error of the worker writing it); when Prepare returns through wg.Wait() all
\* workers have exited, and if any of them failed the returned error is the
\* captured one: non-nil and the error of a worker that failed.
C2_FirstErrorOnce ==
    /\ [](PrepareJoined =>
            /\ \A w \in Workers : pc[w] \in ExitPcs
            /\ retErr = groupErr
            /\ (\E w \in Workers : pc[w] = "failed") =>
                 /\ retErr # Nil
                 /\ \E w \in Workers :
                      /\ pc[w] = "failed"
                      /\ retErr \in {<<"upload error", w>>, <<"short upload", w>>})
    /\ [][mainpc = "wait" =>
            /\ groupErr # Nil => groupErr' = groupErr
            /\ groupErr' # groupErr =>
                 \E w \in Workers :
                    /\ mu = {w}
                    /\ pc'[w] = "failed"
                    /\ groupErr' \in {<<"upload error", w>>, <<"short upload", w>>}]_vars

C2_Witness ==
    /\ PrepareJoined
    /\ Concurrency = 2
    /\ \A w \in Workers : pc[w] = "failed"
    /\ retErr = <<"short upload", 1>>

\* C3 as stated: whenever a phase has returned, no client handle that it
\* checked out remains unreleased.
C3_HandlesReleased ==
    mainpc \in {"returned", "sreturned"}
        => /\ heldMain = 0
           /\ \A w \in Workers : held[w] = 0

\* C9: a setup failure returns at once: whenever Prepare has returned the error
\* of createEmptyBucket or of EnableVersioning, no worker was launched (none
\* left "idle", wg untouched, no parts made), no upload was made, the collector
\* got no record, no handle went to a worker and the inventory is as it was;
\* and workers are only ever launched after createEmptyBucket succeeded and,
\* when Versions > 1, with versioning enabled.
C9_SetupFailureAborts ==
    /\ (retErr \in SetupErrors =>
          /\ mainpc = "returned"
          /\ \A w \in Workers : pc[w] = "idle" /\ held[w] = 0 /\ iter[w] = 0
          /\ wg = 0
          /\ objs = <<>>
          /\ objects = <<>>
          /\ rcvd = EmptyBag)
    /\ ((\E w \in Workers : pc[w] # "idle") =>
          /\ bucketCreated
          /\ retErr \notin SetupErrors
          /\ Versions > 1 => Versioned)
    /\ (mainpc = "returned" /\ ~bucketCreated => retErr = <<"create bucket error">>)
    /\ (mainpc = "returned" /\ Versions > 1 /\ ~Versioned => retErr \in SetupErrors)

C9_Witness ==
    /\ retErr = <<"enable versioning error">>
    /\ mainpc = "returned"
    /\ CreateObjects = MaxObjects
    /\ Concurrency = 2

\* C10: a worker that left its loop without failing, being cancelled or being
\* stopped by the rate limiter has done every iteration of its part and every
\* one of its uploads is in the inventory, whatever happened to its siblings.
C10_SiblingsRunOn ==
    \A w \in Workers :
        pc[w] = "done" =>
            /\ iter[w] = objs[w + 1]
            /\ Cardinality(EntriesOf(w)) = objs[w + 1] * Versions

C10_Witness ==
    /\ PrepareJoined
    /\ Concurrency = 2
    /\ pc[0] = "failed"
    /\ EntriesOf(0) = {}
    /\ pc[1] = "done"
    /\ Cardinality(EntriesOf(1)) = MaxVersions
    /\ retErr = <<"upload error", 0>>

\* C11 as stated: when ctx was cancelled during Prepare and nothing failed for
\* another cause (no setup error, no short upload, no upload error other than
\* the one PutObject returns for the cancelled ctx), Prepare returns nil.
C11_CancelReturnsNil ==
    (/\ mainpc = "returned"
     /\ ctxDone
     /\ retErr \notin SetupErrors
     /\ \A w \in Workers : pc[w] = "failed" => ctxFail[w])
        => retErr = Nil

\* ================================================================== Start
\* The STAT records the collector holds.
StatRecords ==
    {r \in BagToSet(rcvd) : r.OpType = "STAT"}

\* Worker w has an iteration under way: its call is issued and the record of
\* that call is not sent yet.
InCall(w) == pc[w] \in {"call", "emit"}

\* C4: a worker whose call is issued goes on to send its record whatever ctx
\* becomes (from "call" only to "emit", from "emit" only by sending one record);
\* a worker that saw ctx done at its poll has left for good; and no worker sends
\* more than one record after ctx was cancelled.
C4_CooperativeCancel ==
    /\ [](\A w \in Workers : late[w] <= 1)
    /\ [][\A w \in Workers :
            /\ pc[w] = "call" /\ pc'[w] # "call" => pc'[w] = "emit"
            /\ pc[w] = "emit" /\ pc'[w] # "emit" =>
                 /\ pc'[w] = "scldone"
                 /\ StatCount(w)' = StatCount(w) + 1
            /\ pc[w] = "spoll" /\ ctxDone /\ pc'[w] # "spoll" => pc'[w] = "cancelled"
            /\ pc[w] = "cancelled" => pc'[w] = "cancelled" /\ calls'[w] = calls[w]]_vars

C4_Witness ==
    /\ mainpc = "sreturned"
    /\ Concurrency = 2
    /\ \A w \in Workers : late[w] = 1 /\ pc[w] = "cancelled" /\ StatCount(w) = 1

\* C5: when ctx was already done as the gate was closed, no worker ever issues
\* a call (so Start never has an in-flight call to wait for), checks out a
\* client or sends a record.
C5_ImmediateCancel ==
    doneAtOpen =>
        /\ StatRecords = {}
        /\ \A w \in Workers :
             /\ calls[w] = 0
             /\ held[w] = 0
             /\ pc[w] \in {"idle", "gate", "spoll", "cancelled"}
        /\ mainpc = "sreturned" => log = PutRecords(objects)

C5_Witness ==
    /\ doneAtOpen
    /\ mainpc = "sreturned"
    /\ Concurrency = 2
    /\ Len(objects) > 0
    /\ \A w \in Workers : pc[w] = "cancelled"

\* C6: while the gate is open (wait not closed) every worker is before its
\* receive from wait or blocked on it: none has polled, consulted the rate
\* limiter, checked out a client, issued a call or sent a record; the gate
\* once closed stays closed; and once it is closed with the workers launched,
\* every worker gets past it (unless the process has died of a panic).
C6_StartGate ==
    /\ [](~wait =>
            /\ StatRecords = {}
            /\ \A w \in Workers :
                 pc[w] \in {"idle", "gate"} /\ calls[w] = 0 /\ held[w] = 0)
    /\ [][wait => wait']_vars
    /\ (wait /\ mainpc = "swait") ~> (Crashed \/ \A w \in Workers : pc[w] # "gate")

C6_Witness ==
    /\ wait
    /\ Concurrency = 2
    /\ \A w \in Workers : pc[w] = "call"

\* C7: every call that a worker issued has exactly one record: at each moment
\* the worker's STAT records number the calls it issued, less the one whose
\* record is still to be sent.
C7_OneRecordPerCall ==
    \A w \in Workers :
        StatCount(w) = calls[w] - (IF InCall(w) THEN 1 ELSE 0)

C7_Witness ==
    /\ mainpc = "sreturned"
    /\ CopiesIn(Operation("STAT", 0, StatError), rcvd) = 1
    /\ CopiesIn(Operation("STAT", 0, SizeError), rcvd) = 1
    /\ calls[0] = 2

\* C8: once Close has been called every worker has exited and the collector
\* holds just what Close returned; Start has then returned that log and a nil
\* error, also when calls failed.
C8_CloseAfterWorkers ==
    /\ closed =>
         /\ \A w \in Workers : pc[w] \in ExitPcs
         /\ wg = 0
         /\ log = rcvd
         /\ mainpc = "sreturned"
         /\ retErr = Nil
    /\ mainpc = "sreturned" => closed

C8_Witness ==
    /\ closed
    /\ Concurrency = 2
    /\ CopiesIn(Operation("STAT", 1, StatError), log) = 1
    /\ CopiesIn(Operation("STAT", 0, ""), log) = 1
    /\ retErr = Nil

\* C12: a call that reported a size other than the entry's sends a record
\* whose Err is not empty (one more STAT record of the worker, none more with
\* the empty Err); the worker then goes back to the head of its loop, the step
\* moves no other worker, and no measurement worker ever leaves its loop
\* other than on cancellation or on a rate-limiter stop.
C12_MismatchRecorded ==
    /\ [](\A w \in Workers : pc[w] \notin {"failed", "done"})
    /\ [][\A w \in Workers :
            /\ (pc[w] = "emit" /\ pc'[w] # "emit" /\ got[w] # want[w]) =>
                 /\ StatCount(w)' = StatCount(w) + 1
                 /\ CopiesIn(Operation("STAT", w, ""), rcvd') =
                      CopiesIn(Operation("STAT", w, ""), rcvd)
            /\ (pc[w] = "scldone" /\ pc'[w] # "scldone") =>
                 /\ pc'[w] = "spoll"
                 /\ \A v \in Workers \ {w} : pc'[v] = pc[v]]_vars

C12_Witness ==
    /\ Concurrency = 2
    /\ CopiesIn(Operation("STAT", 0, SizeError), rcvd) = 1
    /\ calls[0] = 2
    /\ pc[0] = "call"
    /\ pc[1] = "spoll"
    /\ ~ctxDone

\* ========================================================= Prepare, twice
\* C13: every call of EnableVersioning is made with Versions > 1 and with
\* Versioned not yet set, by the main goroutine before it launches a worker
\* (no worker of the call has started, the bucket holds no upload), and the
\* step leaves the versioning block, so a call of Prepare makes at most one;
\* a call that gets past the block with Versions > 1 has Versioned set, having
\* made exactly one enable call if it was not set before; with Versions <= 1
\* no enable call is ever made; this holds for a second call of Prepare too.
C13_EnableOnce ==
    /\ [][enableCalls' # enableCalls =>
            /\ enableCalls' = enableCalls + 1
            /\ Versions > 1
            /\ ~Versioned
            /\ mainpc = "versioning" /\ mainpc' # "versioning"
            /\ \A w \in Workers : pc[w] = "idle"
            /\ bucket = {}]_vars
    /\ [][(mainpc = "versioning" /\ ~Versioned /\ mainpc' = "spawn") =>
            (enableCalls' = enableCalls + 1 /\ Versioned')]_vars
    /\ [][(mainpc = "versioning" /\ Versioned) =>
            enableCalls' = enableCalls]_vars
    /\ []((mainpc \in {"spawn", "wait"} /\ Versions > 1) => Versioned)
    /\ [](Versions <= 1 => enableCalls = 0)
    /\ [](enableCalls <= (IF again THEN 2 ELSE 1))

\* The second call is past the versioning block without a new enable call: the
\* entry in the inventory is of the first call, which enabled versioning.
C13_Witness ==
    /\ again
    /\ Versions = 2
    /\ Len(objects) >= 1
    /\ mainpc = "wait"
    /\ \A w \in Workers : pc[w] = "poll" /\ iter[w] = 0
    /\ Versioned
    /\ enableCalls = 1
    /\ heldMain = 0

\* ================================================= Prepare, then Cleanup
\* C14: after Prepare and a Cleanup whose deletions succeeded the bucket
\* holds no object that Prepare stored, whether or not Prepare failed, and
\* the prefixes Cleanup asked to delete are those of the inventory entries.
C14_RoundTrip ==
    mainpc = "cleaned" =>
        /\ bucket = {}
        /\ cleanupReq = Prefixes(objects)

\* ============================================================ the split
RECURSIVE SumParts(_)
SumParts(parts) ==
    IF parts = <<>> THEN 0 ELSE Head(parts) + SumParts(Tail(parts))

C16_AppendOnly ==
    [][/\ objects' # objects =>
            /\ InPrepare
            /\ \E w \in Workers : mu = {w} /\ pc[w] = "append"
            /\ Len(objects') = Len(objects) + 1
            /\ SubSeq(objects', 1, Len(objects)) = objects
       /\ ~InPrepare => objects' = objects]_vars

\* Two workers have appended the two versions of their objects in turn.
C16_Witness ==
    /\ InPrepare
    /\ Len(objects) = 3
    /\ objects[1].Name[1] # objects[2].Name[1]
    /\ objects[3].Name[1] = objects[1].Name[1]
    /\ \E w \in Workers : mu = {w} /\ pc[w] = "append"

\* ================================================= records and entries
\* The uploads of worker w that succeeded in full and are past the append.
Appended(w) == iter[w] * Versions + ver[w] + (IF pc[w] = "emit" THEN 1 ELSE 0)

\* The PUT records of worker w that the collector has received.
PutCount(w) == CopiesIn(Operation("PUT", w, ""), rcvd)

\* C17: at every moment of Prepare each worker has appended one entry per
\* upload that succeeded in full and none for an upload that failed or was
\* short, every entry has its Reader cleared, the worker has sent one PUT
\* record per entry except for the entry it has just appended and whose
\* record it is about to send, and nothing else is ever sent; so the records
\* never outnumber the entries, and they are as many once Prepare has returned.
C17_RecordsMatchEntries ==
    /\ \A j \in 1 .. Len(objects) : objects[j].Reader = Nil
    /\ BagToSet(rcvd) \subseteq {Operation("PUT", w, "") : w \in Workers}
    /\ BagCardinality(rcvd) <= Len(objects)
    /\ objs # <<>> =>
         \A w \in Workers :
            /\ Cardinality(EntriesOf(w)) = Appended(w)
            /\ PutCount(w) = iter[w] * Versions + ver[w]
    /\ PrepareJoined => BagCardinality(rcvd) = Len(objects)

\* Worker 0 failed on the second version of its object, worker 1 uploaded both
\* versions of its own: three entries, three records.
C17_Witness ==
    /\ PrepareJoined
    /\ Concurrency = 2 /\ CreateObjects = 2 /\ Versions = 2
    /\ pc[0] = "failed" /\ pc[1] = "done"
    /\ Len(objects) = 3
    /\ BagCardinality(rcvd) = 3

\* ========================================================== termination
\* The workers of Prepare that have not returned yet.
Running == {w \in Workers : pc[w] \notin ExitPcs}

\* C18: Prepare eventually returns, whatever the uploads, the rate limiter
\* and the context do; while it waits the wait group counts exactly the
\* workers still running, of the Concurrency launched, so that the count
\* reaches zero when, and only when, the last of them has returned.
C18_PrepareTerminates ==
    /\ <>(mainpc = "returned")
    /\ [](mainpc = "wait" =>
            /\ Len(objs) = Concurrency
            /\ DOMAIN pc = Workers
            /\ wg = Cardinality(Running))
    /\ [](PrepareJoined => (wg = 0 /\ Running = {}))

\* Prepare has returned after one worker was stopped by the rate limiter and
\* the other failed an upload.
C18_Witness ==
    /\ PrepareJoined
    /\ Concurrency = 2
    /\ pc[0] = "stopped"
    /\ pc[1] = "failed"
    /\ wg = 0

\* ================================================== Start, the selection
\* A worker is past the selection of an inventory entry.
Selected(w) == pc[w] \in {"call", "emit", "scldone", "panic"}

\* C19: a Start worker that has reached the selection of an inventory entry
\* found at least one entry in the inventory.
C19_SelectsFromNonEmpty ==
    \A w \in Workers : Selected(w) => Len(objects) >= 1

\* ======================================================= Start, the gate
\* C20: a worker at the gate stays there while the gate is open, whatever the
\* context does, and Start has returned only if the gate has been closed.
C20_GateIgnoresCancel ==
    /\ [][\A w \in Workers :
            (pc[w] = "gate" /\ ~wait) => pc'[w] = "gate"]_vars
    /\ []((\E w \in Workers : pc[w] \notin {"idle", "gate"}) => wait)
    /\ [](mainpc = "sreturned" => wait)

\* The context is cancelled, the gate is not closed: every worker is still at
\* the gate and Start is in wg.Wait().
C20_Witness ==
    /\ ctxDone
    /\ ~wait
    /\ mainpc = "swait"
    /\ Concurrency = 2
    /\ \A w \in Workers : pc[w] = "gate"
    /\ wg = Concurrency

====
